---- MODULE Spec2Model ----
(***************************************************************************)
(* Model of StockDatabase (src/StockDatabase.py): the construction of the  *)
(* database from a mapping ticker -> Stock, stage by stage, as __init__    *)
(* runs it: _filterStocks, sorted(keys), _getFilteredPrices,               *)
(* _getCovarianceArray, _getCorrelationArray.                              *)
(*                                                                         *)
(* Numbers.  A float64 is modelled by an extended rational <<n, d>>:       *)
(*   d > 0      the finite value n/d, in lowest terms                      *)
(*   <<1, 0>>   +inf      <<-1, 0>>  -inf      <<0, 0>>  NaN               *)
(* with IEEE-754's rules for the non-finite values.  Rounding is not       *)
(* modelled: finite arithmetic is exact.  Zero is unsigned: the only       *)
(* divisors are prices and counts, which are never -0.0.                   *)
(*                                                                         *)
(* Arrays.  A numpy array is a record [shape, data]: shape is the tuple    *)
(* numpy reports (<<>> for a 0-d array, <<0>> for the empty 1-d array,     *)
(* <<R, K>> for a matrix) and data the sequence of its rows (for a 0-d     *)
(* array the one-element sequence holding its value).                      *)
(*                                                                         *)
(* Environment.  The repository pins neither its interpreter nor its       *)
(* numpy.  Where they differ in a way the code meets (dict.keys() in       *)
(* _getFilteredPrices, np.cov's transposition of a one-row matrix), the    *)
(* model draws the version in Init.  numpy's warnings (division by zero,   *)
(* empty slice, degrees of freedom) are warnings, not exceptions.          *)
(***************************************************************************)
EXTENDS Integers, Sequences, FiniteSets, TLC

\* ------------------------------------------------------------- bounds
\* Dates are 1..MaxDate, prices 0..MaxPrice (0 is the zero price of a bad feed).
MaxDate == 2
MaxPrice == 2

\* Config.MINIMUM_AMOUNT_DATA: the minimum number of observations of a kept stock.
MINIMUM_AMOUNT_DATA == 1

\* Tickers, as integers ordered the way the ticker strings are ("A" < "B").
Tickers == {1, 2}
Dates == 1..MaxDate
Prices == 0..MaxPrice

\* The database objects the caller constructs, one after the other.
Instances == {1, 2}

\* The interpreters the program runs under: dict.keys() is a list in Python 2
\* and a live view of the dict in Python 3.
PythonVersions == {2, 3}

\* The numpy releases: np.cov(m, rowvar=False) transposes m unless m has exactly
\* one row in numpy 1.x, and always in numpy 2.x (which needs Python 3).
NumpyVersions == {1, 2}

VARIABLES
    python,        \* the interpreter's major version
    numpy,         \* numpy's major version
    input,         \* the caller's stock_dict: ticker -> Stock
    pc,            \* per instance: the stage __init__ has completed
    stock_dict,    \* per instance: self.stock_dict
    tickers,       \* per instance: self.tickers
    panel_dates,   \* per instance: the keys of the local ordered_date_dict
    price_array,   \* per instance: self.price_array
    covar_array,   \* per instance: self.covar_array
    correl_array   \* per instance: self.correl_array

vars == <<python, numpy, input, pc, stock_dict, tickers, panel_dates,
          price_array, covar_array, correl_array>>

\* ------------------------------------------------------ float64 values
Abs(n) == IF n < 0 THEN -n ELSE n
Sgn(n) == IF n < 0 THEN -1 ELSE IF n > 0 THEN 1 ELSE 0

RECURSIVE GCD(_, _)
GCD(a, b) == IF b = 0 THEN a ELSE GCD(b, a % b)

\* The value n/d for d >= 0, in the representation above.
Norm(n, d) ==
    IF d = 0 THEN <<Sgn(n), 0>>
    ELSE IF n = 0 THEN <<0, 1>>
    ELSE LET g == GCD(Abs(n), d) IN <<n \div g, d \div g>>

NaN == <<0, 0>>
Zero == <<0, 1>>
One == <<1, 1>>
FromInt(n) == <<n, 1>>
IsFinite(x) == x[2] # 0
IsNaN(x) == x = NaN

FNeg(x) == <<-x[1], x[2]>>
FAdd(x, y) ==
    IF x[2] = 0 /\ y[2] = 0
    THEN (IF x = y THEN x ELSE NaN)
    ELSE Norm(x[1] * y[2] + y[1] * x[2], x[2] * y[2])
FSub(x, y) == FAdd(x, FNeg(y))
FMul(x, y) == Norm(x[1] * y[1], x[2] * y[2])
\* 1/y: 1/0 = +inf, 1/inf = 0, 1/NaN = NaN.
FInv(y) ==
    IF y[1] > 0 THEN Norm(y[2], y[1])
    ELSE IF y[1] < 0 THEN Norm(-y[2], -y[1])
    ELSE IF y[2] = 0 THEN NaN ELSE <<1, 0>>
FDiv(x, y) == FMul(x, FInv(y))
FLeq(x, y) == x[1] * y[2] <= y[1] * x[2]

RECURSIVE FSum(_)
FSum(s) == IF s = <<>> THEN Zero ELSE FAdd(Head(s), FSum(Tail(s)))

\* ------------------------------------------------------------ helpers
\* The set S as an ascending sequence: sorted(S).
RECURSIVE Sorted(_)
Sorted(S) ==
    IF S = {} THEN <<>>
    ELSE LET m == CHOOSE x \in S : \A y \in S : x <= y
         IN <<m>> \o Sorted(S \ {m})

\* The orders in which a dict with key set S can be iterated.
Orders(S) ==
    {o \in [1..Cardinality(S) -> S] : \A i, j \in DOMAIN o : i # j => o[i] # o[j]}

\* d[k] = v on a dict d.
DictSet(d, k, v) == [x \in DOMAIN d \cup {k} |-> IF x = k THEN v ELSE d[x]]
EmptyDict == [x \in {} |-> 0]

Unset == [shape |-> <<-1>>, data |-> <<>>]

\* ---------------------------------------------------------- the input
\* A Stock as main.getInputData builds it: stored under its own ticker.
Stock(t, dd) == [ticker |-> t, ordered_date_dict |-> dd]
\* The date -> price mappings of a stock.
DateDicts == UNION {[D -> Prices] : D \in SUBSET Dates}
\* The caller's mapping for the stocks S with the date mappings f.
StockDict(S, f) == [t \in S |-> Stock(t, f[t])]

Init ==
    /\ python \in PythonVersions
    /\ numpy \in NumpyVersions
    /\ python = 2 => numpy = 1
    /\ \E S \in SUBSET Tickers : \E f \in [S -> DateDicts] : input = StockDict(S, f)
    /\ pc = [i \in Instances |-> "new"]
    /\ stock_dict = [i \in Instances |-> EmptyDict]
    /\ tickers = [i \in Instances |-> <<>>]
    /\ panel_dates = [i \in Instances |-> <<>>]
    /\ price_array = [i \in Instances |-> Unset]
    /\ covar_array = [i \in Instances |-> Unset]
    /\ correl_array = [i \in Instances |-> Unset]

\* ------------------------------------------------------ _filterStocks
\* The threshold test with > for >=.
enoughDataStrict(stock) ==
    Cardinality(DOMAIN stock.ordered_date_dict) > MINIMUM_AMOUNT_DATA

\* Lines 32-33: the stock has enough data.
enoughData(stock) ==
    Cardinality(DOMAIN stock.ordered_date_dict) >= MINIMUM_AMOUNT_DATA

\* The loop of _filterStocks over the tickers in iteration order `order`.
RECURSIVE filterLoop(_, _, _)
filterLoop(sd, order, new_stock_dict) ==
    IF order = <<>> THEN new_stock_dict
    ELSE LET ticker == Head(order)
         IN filterLoop(sd, Tail(order),
                IF enoughData(sd[ticker])
                THEN DictSet(new_stock_dict, ticker, sd[ticker])
                ELSE new_stock_dict)

\* _filterStocks with its return inside the loop: it returns after the first ticker.
filterStocksFirstOnly(sd, order) ==
    filterLoop(sd, SubSeq(order, 1, IF order = <<>> THEN 0 ELSE 1), EmptyDict)

\* _filterStocks, lines 30-35.
filterStocks(sd, order) == filterLoop(sd, order, EmptyDict)

\* __init__, lines 16-17.
FilterStocks(i) ==
    /\ pc[i] = "new"
    /\ \E order \in Orders(DOMAIN input) :
          stock_dict' = [stock_dict EXCEPT ![i] = filterStocks(input, order)]
    /\ pc' = [pc EXCEPT ![i] = "filtered"]
    /\ UNCHANGED <<python, numpy, input, tickers, panel_dates, price_array,
                   covar_array, correl_array>>

\* __init__, line 19.
sortedKeys(d) == Sorted(DOMAIN d)

SortTickers(i) ==
    /\ pc[i] = "filtered"
    /\ tickers' = [tickers EXCEPT ![i] = sortedKeys(stock_dict[i])]
    /\ pc' = [pc EXCEPT ![i] = "ordered"]
    /\ UNCHANGED <<python, numpy, input, stock_dict, panel_dates, price_array,
                   covar_array, correl_array>>

\* -------------------------------------------------- _getFilteredPrices
\* A dict that remembers the order its keys were inserted in.
EmptyDateDict == [keys |-> <<>>, val |-> EmptyDict]

\* Lines 49-51: date_dict[date][stock.ticker] = stock.ordered_date_dict[date].
putPrice(date_dict, date, stock) ==
    LET price == stock.ordered_date_dict[date]
    IN IF date \in DOMAIN date_dict.val
       THEN [date_dict EXCEPT !.val[date] = DictSet(@, stock.ticker, price)]
       ELSE [keys |-> Append(date_dict.keys, date),
             val |-> DictSet(date_dict.val, date, DictSet(EmptyDict, stock.ticker, price))]

\* Line 48: the dates of one stock, in the order of its ordered_date_dict.
RECURSIVE addDates(_, _, _)
addDates(date_dict, stock, dates) ==
    IF dates = <<>> THEN date_dict
    ELSE addDates(putPrice(date_dict, Head(dates), stock), stock, Tail(dates))

\* Lines 46-51: the stocks in the iteration order `order` of self.stock_dict.
RECURSIVE buildDateDict(_, _, _)
buildDateDict(sd, order, date_dict) ==
    IF order = <<>> THEN date_dict
    ELSE LET stock == sd[Head(order)]
         IN buildDateDict(sd, Tail(order),
                addDates(date_dict, stock, Sorted(DOMAIN stock.ordered_date_dict)))

\* Line 55: the date misses a ticker.
missesTicker(date_dict, date, sd) ==
    Cardinality(DOMAIN date_dict.val[date]) < Cardinality(DOMAIN sd)

\* Lines 54-56: `for date in date_dict.keys(): ... del date_dict[date]`.
\* Python 2 iterates a list of the keys taken before the loop.  Python 3
\* iterates the dict itself, and the step after a del raises RuntimeError
\* ("dictionary changed size during iteration"), also after the last key.
\* The result is [error, val]: val the dict's remaining date -> prices.
RECURSIVE removeLoop(_, _, _, _)
removeLoop(py, date_dict, sd, todo) ==
    IF todo = <<>> THEN [error |-> FALSE, val |-> date_dict.val]
    ELSE LET date == Head(todo)
         IN IF missesTicker(date_dict, date, sd)
            THEN IF py = 3
                 THEN [error |-> TRUE, val |-> date_dict.val]
                 ELSE removeLoop(py,
                        [date_dict EXCEPT
                            !.val = [d \in DOMAIN date_dict.val \ {date} |-> date_dict.val[d]]],
                        sd, Tail(todo))
            ELSE removeLoop(py, date_dict, sd, Tail(todo))

removeMissing(py, date_dict, sd) == removeLoop(py, date_dict, sd, date_dict.keys)

\* Lines 59-60: the dates, ascending.
orderDates(val) == Sorted(DOMAIN val)

\* The panel with its columns in descending ticker order.
toArrayDescending(val, dates, tks) ==
    IF dates = <<>> THEN [shape |-> <<0>>, data |-> <<>>]
    ELSE [shape |-> <<Len(dates), Len(tks)>>,
          data |-> [r \in 1..Len(dates) |->
                      [c \in 1..Len(tks) |-> FromInt(val[dates[r]][tks[Len(tks) + 1 - c]])]]]

\* Lines 65-69: np.array([[... for ticker in self.tickers] for date in ...],
\* dtype=np.float64).  An empty list of rows gives the empty 1-d array.
toArray(val, dates, tks) ==
    IF dates = <<>> THEN [shape |-> <<0>>, data |-> <<>>]
    ELSE [shape |-> <<Len(dates), Len(tks)>>,
          data |-> [r \in 1..Len(dates) |->
                      [c \in 1..Len(tks) |-> FromInt(val[dates[r]][tks[c]])]]]

\* __init__, line 20.
GetFilteredPrices(i) ==
    /\ pc[i] = "ordered"
    /\ \E order \in Orders(DOMAIN stock_dict[i]) :
          LET date_dict == buildDateDict(stock_dict[i], order, EmptyDateDict)
              kept == removeMissing(python, date_dict, stock_dict[i])
          IN IF kept.error
             THEN /\ pc' = [pc EXCEPT ![i] = "failed"]
                  /\ UNCHANGED <<panel_dates, price_array>>
             ELSE /\ pc' = [pc EXCEPT ![i] = "aligned"]
                  /\ panel_dates' = [panel_dates EXCEPT ![i] = orderDates(kept.val)]
                  /\ price_array' = [price_array EXCEPT ![i] =
                        toArray(kept.val, orderDates(kept.val), tickers[i])]
    /\ UNCHANGED <<python, numpy, input, stock_dict, tickers, covar_array, correl_array>>

\* ------------------------------------------------------- the statistics
\* Lines 79-81 and 90-92: price_array[1:] / price_array[:-1].
priceChange(a) ==
    IF Len(a.shape) = 1 THEN [shape |-> <<0>>, data |-> <<>>]
    ELSE [shape |-> <<a.shape[1] - 1, a.shape[2]>>,
          data |-> [r \in 1..(a.shape[1] - 1) |->
                      [c \in 1..a.shape[2] |-> FDiv(a.data[r + 1][c], a.data[r][c])]]]

\* np.cov's X = array(m, ndmin=2), transposed for rowvar=False: one row per
\* variable.  The empty 1-d array becomes one variable with no observation.
\* numpy 1.x tests `X.shape[0] != 1` before it transposes, so that a matrix of
\* exactly one row stays one variable; numpy 2.x tests `m.ndim != 1`.
variables(np, m) ==
    IF Len(m.shape) = 1 THEN << <<>> >>
    ELSE IF np = 1 /\ m.shape[1] = 1 THEN <<m.data[1]>>
    ELSE [c \in 1..m.shape[2] |-> [r \in 1..m.shape[1] |-> m.data[r][c]]]

\* np.average(X, axis=1).
average(x) == FDiv(FSum(x), FromInt(Len(x)))

\* np.cov's X -= avg[:, None], for one variable.
center(x) ==
    LET avg == average(x)
    IN [n \in 1..Len(x) |-> FSub(x[n], avg)]

\* One entry of np.cov's dot(X, X.T).
dot(x, y) == FSum([n \in 1..Len(x) |-> FMul(x[n], y[n])])

\* np.cov's c.squeeze(): the 1 x 1 matrix of a single variable becomes 0-d.
squeeze(c) ==
    IF Len(c) = 1 THEN [shape |-> <<>>, data |-> <<c[1][1]>>]
    ELSE [shape |-> <<Len(c), Len(c)>>, data |-> c]

\* np.cov(m, rowvar=False, ddof=0): c = dot(X, X.T) * (1 / fact), where
\* fact = N - ddof is the number of observations.
cov(np, m) ==
    LET X == variables(np, m)
        Xc == [j \in 1..Len(X) |-> center(X[j])]
        fact == Len(X[1]) - 0
        scale == FInv(FromInt(fact))
    IN squeeze([j \in 1..Len(X) |-> [k \in 1..Len(X) |-> FMul(dot(Xc[j], Xc[k]), scale)]])

\* The correlation r is kept as the exact rational sgn(r) * r^2, since r itself is
\* a square root: r = 1 iff sgn(r) * r^2 = 1, and r in [-1, 1] iff it is.
signedSquare(x) == FMul(x, <<Abs(x[1]), x[2]>>)

\* np.clip(c, -1, 1): NaN stays NaN.
clip(x) ==
    IF IsNaN(x) THEN x
    ELSE IF FLeq(x, FNeg(One)) THEN FNeg(One)
    ELSE IF FLeq(One, x) THEN One ELSE x

\* np.corrcoef: c / stddev[:, None] / stddev[None, :], stddev = sqrt(diag(c)).
corrEntry(c, j, k) == clip(FDiv(FDiv(signedSquare(c[j][k]), c[j][j]), c[k][k]))

\* np.corrcoef(x, rowvar=False, ddof=0): c = cov(x); a 0-d c has no diagonal
\* and c / c is returned.
corrcoef(np, m) ==
    LET c == cov(np, m)
    IN IF c.shape = <<>>
       THEN [shape |-> <<>>, data |-> <<FDiv(c.data[1], c.data[1])>>]
       ELSE [shape |-> c.shape,
             data |-> [j \in 1..Len(c.data) |->
                         [k \in 1..Len(c.data) |-> corrEntry(c.data, j, k)]]]

\* _getCovarianceArray, lines 79-82.
getCovarianceArray(np, a) == cov(np, priceChange(a))

\* _getCorrelationArray, lines 90-93.
getCorrelationArray(np, a) == corrcoef(np, priceChange(a))

\* __init__, line 21.
GetCovarianceArray(i) ==
    /\ pc[i] = "aligned"
    /\ covar_array' = [covar_array EXCEPT ![i] = getCovarianceArray(numpy, price_array[i])]
    /\ pc' = [pc EXCEPT ![i] = "covar"]
    /\ UNCHANGED <<python, numpy, input, stock_dict, tickers, panel_dates, price_array,
                   correl_array>>

\* __init__, line 22: the constructor returns and the database is ready.
GetCorrelationArray(i) ==
    /\ pc[i] = "covar"
    /\ correl_array' = [correl_array EXCEPT ![i] = getCorrelationArray(numpy, price_array[i])]
    /\ pc' = [pc EXCEPT ![i] = "ready"]
    /\ UNCHANGED <<python, numpy, input, stock_dict, tickers, panel_dates, price_array,
                   covar_array>>

\* ------------------------------------------------------ specifications
\* One step of the construction of database i.
Construct(i) ==
    \/ FilterStocks(i)
    \/ SortTickers(i)
    \/ GetFilteredPrices(i)
    \/ GetCovarianceArray(i)
    \/ GetCorrelationArray(i)

Done(i) == pc[i] \in {"ready", "failed"}

\* main.getInputData: one database is built.
Next == Construct(1)

Spec == Init /\ [][Next]_vars

\* Two databases built from the same mapping, the second after the first.
NextTwice == Construct(1) \/ (Done(1) /\ Construct(2))

SpecTwice == Init /\ [][NextTwice]_vars

\* ------------------------------------------------------------ the claims
\* What the claims speak of, stated on the caller's input alone.
Observations(t) == Cardinality(DOMAIN input[t].ordered_date_dict)
Survivors == {t \in DOMAIN input : Observations(t) >= MINIMUM_AMOUNT_DATA}
Covers(t, d) == d \in DOMAIN input[t].ordered_date_dict
CommonDates == {d \in Dates : Survivors # {} /\ \A t \in Survivors : Covers(t, d)}

Aligned(i) == pc[i] \in {"aligned", "covar", "ready"}
Ready(i) == pc[i] = "ready"
Range(s) == {s[n] : n \in DOMAIN s}
NumRows(a) == IF Len(a.shape) = 2 THEN a.shape[1] ELSE 0
\* The entry [j, k] of a statistic; a 0-d array is read as its one value.
At(a, j, k) == IF a.shape = <<>> THEN a.data[1] ELSE a.data[j][k]

\* C1: a date is in the aligned panel if and only if every surviving asset has
\* a price for it, and dropping the partially covered dates does not make the
\* construction fail.
C1_DatesAlignedWithoutFailure ==
    \A i \in Instances :
        /\ pc[i] # "failed"
        /\ Aligned(i) => Range(panel_dates[i]) = CommonDates

\* C2: in a ready database, tickers is the ascending sequence of the surviving
\* tickers and its length is the number of columns of price_array and the
\* dimension, on both axes, of covar_array and correl_array.  Stated on the
\* databases whose panel has at least 2 rows, which include those of exactly
\* one surviving asset.
C2_TickersMatchShapes ==
    \A i \in Instances :
        (Ready(i) /\ NumRows(price_array[i]) >= 2) =>
            LET K == Len(tickers[i])
            IN /\ tickers[i] = Sorted(Survivors)
               /\ Len(price_array[i].shape) = 2 /\ price_array[i].shape[2] = K
               /\ covar_array[i].shape = <<K, K>>
               /\ correl_array[i].shape = <<K, K>>

\* C3: once filtered, stock_dict holds an asset of the input if and only if it has
\* at least MINIMUM_AMOUNT_DATA observations, under its key and unchanged.
C3_FilterKeepsThreshold ==
    \A i \in Instances :
        pc[i] \notin {"new"} =>
            /\ DOMAIN stock_dict[i] \subseteq DOMAIN input
            /\ \A t \in DOMAIN input :
                  /\ t \in DOMAIN stock_dict[i] <=> Observations(t) >= MINIMUM_AMOUNT_DATA
                  /\ t \in DOMAIN stock_dict[i] => stock_dict[i][t] = input[t]

\* C3's case: an asset with exactly MINIMUM_AMOUNT_DATA observations was kept and
\* one with MINIMUM_AMOUNT_DATA - 1 was dropped.
C3_Witness ==
    /\ Ready(1)
    /\ \E t, u \in DOMAIN input :
          /\ Observations(t) = MINIMUM_AMOUNT_DATA /\ t \in DOMAIN stock_dict[1]
          /\ Observations(u) = MINIMUM_AMOUNT_DATA - 1 /\ u \notin DOMAIN stock_dict[1]

C5_EmptyUniverseFails ==
    \A i \in Instances : Survivors = {} => ~Ready(i)

\* C6: when assets survive but no date is covered by all of them, the
\* construction does not reach the ready state.
C6_EmptyAlignmentFails ==
    \A i \in Instances : (Survivors # {} /\ CommonDates = {}) => ~Ready(i)

\* A return ratio of the panel divides by a price of zero.
DividesByZero(i) ==
    /\ Len(price_array[i].shape) = 2
    /\ \E r \in 1..(price_array[i].shape[1] - 1) : \E c \in 1..price_array[i].shape[2] :
          price_array[i].data[r][c] = Zero

\* C7: when a return ratio divides by a zero price, the construction does not
\* reach the ready state, where covar_array or correl_array would expose a NaN
\* or infinite entry.
C7_NonFiniteSurfaced ==
    \A i \in Instances : DividesByZero(i) => ~Ready(i)

\* C8: a panel of fewer than 2 rows gets no statistics and the construction
\* does not go on to the ready state.  Stated on the panels of exactly 1 row:
\* the surviving assets have exactly 1 common date.
C8_TwoRowsRequired ==
    \A i \in Instances :
        NumRows(price_array[i]) = 1 => pc[i] \notin {"covar", "ready"}

\* C9: in a ready database the correlation matrix is symmetric, has 1 on its
\* diagonal and all its entries in [-1, 1], for every surviving asset, also one
\* of constant prices.  Stated on the databases whose panel has at least 2 rows
\* and no division by a zero price.
C9_CorrelationWellFormed ==
    \A i \in Instances :
        (Ready(i) /\ NumRows(price_array[i]) >= 2 /\ ~DividesByZero(i)) =>
            \A j, k \in 1..Len(tickers[i]) :
                /\ At(correl_array[i], j, k) = At(correl_array[i], k, j)
                /\ At(correl_array[i], j, j) = One
                /\ IsFinite(At(correl_array[i], j, k))
                /\ FLeq(FNeg(One), At(correl_array[i], j, k))
                /\ FLeq(At(correl_array[i], j, k), One)

\* The two constructions ended the same way with the same artifacts.
SameOutcome ==
    /\ pc[1] = pc[2]
    /\ tickers[1] = tickers[2]
    /\ price_array[1] = price_array[2]
    /\ covar_array[1] = covar_array[2]
    /\ correl_array[1] = correl_array[2]

\* C10: two databases built from the same mapping end the same way, both failed
\* or both ready with the same tickers, price_array, covar_array and
\* correl_array, whatever the iteration orders; and no step of a construction
\* changes the caller's mapping.
C10_Deterministic ==
    /\ []((Done(1) /\ Done(2)) => SameOutcome)
    /\ [][input' = input]_vars

\* C10's case: both databases are ready, with two assets and a panel of two rows.
C10_Witness ==
    /\ Ready(1) /\ Ready(2)
    /\ Len(tickers[2]) = 2
    /\ NumRows(price_array[2]) >= 2
====
